---- MODULE Spec2Model ----
(***************************************************************************)
(* Cross-validated ensemble training-and-scoring loop of                   *)
(* experiments/experiment_4/experiment_4.py.                               *)
(*                                                                         *)
(* Floating point numbers are modelled as exact rationals <<num, den>> in  *)
(* lowest terms.  Data frames are sequences of index labels into df.       *)
(* Strings that the program slices at '/' are sequences of '/'-separated   *)
(* segments.  The external services (pandas' sampler, the fine-tuned       *)
(* models' inference) are inputs drawn in Init.                            *)
(***************************************************************************)
EXTENDS Integers, Sequences, FiniteSets, TLC

VARIABLES
    model_names,     \* line 255: the list of base-model short names (input)
    df,              \* line 258-259: the data set, index label -> row
    sampler,         \* input: which rows DataFrame.sample draws per random_state
    oracle,          \* input: what the fine-tuned models predict
    store,           \* the checkpoint directory ../models: set of cache keys
    pc,              \* position of the driver
    label,           \* line 288: index into LABELS
    i,               \* line 289: fold index
    mi,              \* line 295: index into model_names
    k,               \* line 302: repetition index
    tokenizer,       \* line 296: identifier the tokenizer was built from
    df_train,        \* line 290
    df_val,          \* line 291
    df_train_val,    \* line 303
    df_train_train,  \* line 304
    predictions,     \* line 293: the running total
    npred,           \* number of probability matrices summed into predictions
    scores,          \* line 261: the score collections
    last,            \* what the last load-or-train iteration did
    err,             \* the exception that ended the run, if any
    ly_true,         \* calc_f1_score_germeval: argument
    ly_pred,         \* calc_f1_score_germeval: argument
    macro_f1         \* calc_f1_score_germeval: result

vars == <<model_names, df, sampler, oracle, store, pc, label, i, mi, k,
          tokenizer, df_train, df_val, df_train_val, df_train_train,
          predictions, npred, scores, last, err, ly_true, ly_pred, macro_f1>>

-----------------------------------------------------------------------------
(* Bounds of the model *)

model_count == 2
NRows == 10
MaxLen == 4
MaxFrame == 6

(* Program constants *)

n_splits == 5
MacroFolds == 5
FracDen == 10

-----------------------------------------------------------------------------
(* Exact rationals standing for the program's floats *)

RECURSIVE GCD(_, _)
GCD(a, b) == IF b = 0 THEN a ELSE GCD(b, a % b)

Rat(n, d) == LET g == GCD(n, d) IN <<n \div g, d \div g>>

Zero == <<0, 1>>
One == <<1, 1>>

RAdd(a, b) == Rat(a[1] * b[2] + b[1] * a[2], a[2] * b[2])
RMul(a, b) == Rat(a[1] * b[1], a[2] * b[2])
RDivInt(a, n) == Rat(a[1], a[2] * n)
RDiv(a, b) == Rat(a[1] * b[2], a[2] * b[1])
RGt(a, b) == a[1] * b[2] > b[1] * a[2]

RECURSIVE RSum(_)
RSum(s) == IF s = <<>> THEN Zero ELSE RAdd(Head(s), RSum(Tail(s)))

\* np.mean of a non-empty list
np_mean(s) == RDivInt(RSum(s), Len(s))

RECURSIVE Count(_, _)
Count(s, v) == IF s = <<>> THEN 0
               ELSE (IF Head(s) = v THEN 1 ELSE 0) + Count(Tail(s), v)

Range(s) == {s[j] : j \in DOMAIN s}

\* the subsequence of s whose elements satisfy Keep
RECURSIVE Filter(_, _)
Filter(s, keep) == IF s = <<>> THEN <<>>
                   ELSE IF Head(s) \in keep THEN <<Head(s)>> \o Filter(Tail(s), keep)
                   ELSE Filter(Tail(s), keep)

-----------------------------------------------------------------------------
(* get_hugging_face_name, lines 226-233.  'deepset/gbert-large' is the     *)
(* segment list <<"deepset", "gbert-large">>; '' is <<"">>.                *)

EmptyStr == <<"">>

get_hugging_face_name_default(name) ==
    IF name = "gbert" THEN <<"deepset", "gbert-large">>
    ELSE IF name = "gelectra" THEN <<"deepset", "gelectra-large">>
    ELSE IF name = "gottbert" THEN <<"uklfr", "gottbert-base">>
    ELSE <<"deepset", "gbert-large">>

get_hugging_face_name(name) ==
    IF name = "gbert" THEN <<"deepset", "gbert-large">>
    ELSE IF name = "gelectra" THEN <<"deepset", "gelectra-large">>
    ELSE IF name = "gottbert" THEN <<"uklfr", "gottbert-base">>
    ELSE EmptyStr

\* s[s.find('/') + 1:], line 320: find gives -1 when s holds no '/', and
\* the slice is then all of s
AfterSlash(s) == IF Len(s) = 1 THEN s ELSE Tail(s)

-----------------------------------------------------------------------------
(* sklearn.metrics on single-column binary labels (sequences over {0,1})   *)

\* number of positions where y_true is t and y_pred is p
RECURSIVE Conf(_, _, _, _)
Conf(y_true, y_pred, t, p) ==
    IF y_true = <<>> THEN 0
    ELSE (IF Head(y_true) = t /\ Head(y_pred) = p THEN 1 ELSE 0)
         + Conf(Tail(y_true), Tail(y_pred), t, p)

\* a ratio with sklearn's zero_division default: 0 when the denominator is 0
Ratio(n, d) == IF d = 0 THEN Zero ELSE Rat(n, d)

\* precision_score(y_true, y_pred), binary, pos_label 1 (line 376)
precision_score(y_true, y_pred) ==
    Ratio(Conf(y_true, y_pred, 1, 1), Count(y_pred, 1))

\* recall_score(y_true, y_pred), binary, pos_label 1 (line 377)
recall_score(y_true, y_pred) ==
    Ratio(Conf(y_true, y_pred, 1, 1), Count(y_true, 1))

\* classification_report(...)['macro avg']: the classes of the report are
\* those occurring in y_true or y_pred, in sorted order
ReportClasses(y_true, y_pred) ==
    Filter(<<0, 1>>, Range(y_true) \cup Range(y_pred))

ClassPrecision(y_true, y_pred, c) ==
    Ratio(Conf(y_true, y_pred, c, c), Count(y_pred, c))

ClassRecall(y_true, y_pred, c) ==
    Ratio(Conf(y_true, y_pred, c, c), Count(y_true, c))

report_macro_avg_precision(y_true, y_pred) ==
    LET cs == ReportClasses(y_true, y_pred)
    IN  np_mean([j \in DOMAIN cs |-> ClassPrecision(y_true, y_pred, cs[j])])

report_macro_avg_recall(y_true, y_pred) ==
    LET cs == ReportClasses(y_true, y_pred)
    IN  np_mean([j \in DOMAIN cs |-> ClassRecall(y_true, y_pred, cs[j])])

\* a plausible slip: sklearn's native macro F1, the mean of the per-class F1
calc_f1_score_germeval_native(y_true, y_pred) ==
    LET cs == ReportClasses(y_true, y_pred)
        f1(c) == LET p == ClassPrecision(y_true, y_pred, c)
                     r == ClassRecall(y_true, y_pred, c)
                 IN  IF RGt(RAdd(p, r), Zero)
                     THEN RDiv(RMul(<<2, 1>>, RMul(p, r)), RAdd(p, r))
                     ELSE Zero
    IN  np_mean([j \in DOMAIN cs |-> f1(cs[j])])

\* calc_f1_score_germeval, lines 236-249, on a one-dimensional ly_true: the
\* loop of line 241 runs once and line 249 divides by 1
calc_f1_score_germeval(y_true, y_pred) ==
    LET p == report_macro_avg_precision(y_true, y_pred)
        r == report_macro_avg_recall(y_true, y_pred)
        lf1_score == IF RGt(RAdd(p, r), Zero)
                     THEN RDiv(RMul(<<2, 1>>, RMul(p, r)), RAdd(p, r))
                     ELSE Zero
    IN  RDivInt(RAdd(Zero, lf1_score), 1)

\* roc_auc_score raises ValueError unless y_true holds both classes
roc_auc_raises(y_true) == Range(y_true) # {0, 1}

\* roc_auc_score(y_true, y_score): the share of (positive, negative) pairs
\* ranked correctly, a tie counting one half
roc_auc_score(y_true, y_score) ==
    LET pos == {j \in DOMAIN y_true : y_true[j] = 1}
        neg == {j \in DOMAIN y_true : y_true[j] = 0}
        wins == Cardinality({pq \in pos \X neg : RGt(y_score[pq[1]], y_score[pq[2]])})
        ties == Cardinality({pq \in pos \X neg : y_score[pq[1]] = y_score[pq[2]]})
    IN  Rat(2 * wins + ties, 2 * Cardinality(pos) * Cardinality(neg))

-----------------------------------------------------------------------------
(* The data set and the inputs of a run                                    *)

LABELS == <<"toxic", "engaging", "fact">>
METRICS == {"test_Precision", "test_Recall", "test_F1", "test_AUC"}

Row(text, toxic, engaging, fact) ==
    [text |-> text, toxic |-> toxic, engaging |-> engaging, fact |-> fact]

\* Data sets as load_dataset and clean_up_comments leave them: index labels
\* 0..n-1 (reset_index, line 35), no two equal rows (drop_duplicates, line
\* 32).  In "dup" the clean-up has made the texts of two rows equal.
Datasets == {"unique", "dup"}

Dataset(d) ==
    IF d = "unique"
    THEN [j \in 0..(NRows - 1) |->
            Row(j, j % 2, IF j % 4 < 2 THEN 1 ELSE 0, IF j % 3 = 0 THEN 1 ELSE 0)]
    ELSE [j \in 0..(NRows - 1) |->
            Row(IF j = NRows - 1 THEN 0 ELSE j,
                IF 2 * j < NRows THEN 1 ELSE 0, (j + 1) % 2, IF j % 5 < 2 THEN 1 ELSE 0)]

\* The inputs of a run: the list of line 255 (or another one, a name the
\* lookup does not know included), the data set, which rows the sampler
\* draws ("same": every random_state draws the same rows) and what the
\* fine-tuned models predict
Inputs ==
    { <<<<"gbert", "gelectra">>, "unique", "spread", "by_model">>,
      <<<<"gbert", "gelectra">>, "unique", "spread", "varied">>,
      <<<<"gbert", "gelectra">>, "dup", "same", "varied">>,
      <<<<"gottbert">>, "dup", "spread", "varied">>,
      <<<<"gbert", "xlmr">>, "unique", "same", "by_model">> }

Column(frame, col) == [j \in DOMAIN frame |-> df[frame[j]][col]]

-----------------------------------------------------------------------------
(* KFold().split(df), line 289: n_splits consecutive blocks, the first     *)
(* n % n_splits one row longer, no shuffling                               *)

FoldSize(n, f) == (n \div n_splits) + (IF f < n % n_splits THEN 1 ELSE 0)

FoldStart(n, f) ==
    f * (n \div n_splits) + (IF f < n % n_splits THEN f ELSE n % n_splits)

val_index(n, f) == [j \in 1..FoldSize(n, f) |-> FoldStart(n, f) + j - 1]

train_index(n, f) ==
    LET first == FoldStart(n, f)
        size == FoldSize(n, f)
    IN  [j \in 1..(n - size) |-> IF j - 1 < first THEN j - 1 ELSE j - 1 + size]

NumRows == Cardinality(DOMAIN df)

-----------------------------------------------------------------------------
(* The bootstrap split, lines 303-304                                      *)

\* Python's round() of n / d: to the nearest integer, a half to the even one
RoundHalfEven(n, d) ==
    LET q == n \div d
        r == n % d
    IN  IF 2 * r > d THEN q + 1
        ELSE IF 2 * r < d THEN q
        ELSE IF q % 2 = 0 THEN q ELSE q + 1

\* number of rows DataFrame.sample(frac=0.1) draws from a frame of n rows
SampleSize(n) == RoundHalfEven(n, FracDen)

\* df_train.sample(frac=0.1, random_state=kk): SampleSize rows of the frame,
\* which ones being the sampler's business
sample(frame, kk) ==
    LET n == Len(frame)
        start == IF sampler = "spread" THEN 3 * kk ELSE 0
    IN  [j \in 1..SampleSize(n) |-> frame[((start + j - 1) % n) + 1]]

\* a plausible slip: drop the sampled rows themselves, df_train.drop(df_train_val.index)
drop_sampled_by_index(frame, val) ==
    Filter(frame, Range(frame) \ Range(val))

\* line 304: df_train.drop(df_train[df_train['text'].isin(df_train_val['text'])].index)
drop_sampled(frame, val) ==
    LET texts == {df[val[j]].text : j \in DOMAIN val}
    IN  Filter(frame, {x \in Range(frame) : df[x].text \notin texts})

-----------------------------------------------------------------------------
(* The cache key, lines 318-320: the hash of the rows of df_train_train    *)
(* (index and every column), the model name after '/', the label.  The     *)
(* digest is modelled by the content it is computed from.                  *)

Content(frame) ==
    [j \in DOMAIN frame |->
        <<frame[j], df[frame[j]].text, df[frame[j]].toxic,
          df[frame[j]].engaging, df[frame[j]].fact>>]

hash(frame, model_name, lab) ==
    <<Content(frame), AfterSlash(get_hugging_face_name(model_name)), lab>>

-----------------------------------------------------------------------------
(* Inference, lines 364-366: the softmax of the predictor's logits on the  *)
(* validation rows, one <<p0, p1>> per row with p0 + p1 = 1.  What a       *)
(* checkpoint predicts is a function of the checkpoint (its key).          *)

P1(key, idx) ==
    IF oracle = "by_model"
    THEN (IF key[2] = <<"gbert-large">> THEN <<1, 10>>
          ELSE IF key[2] = <<"gelectra-large">> THEN <<3, 10>>
          ELSE <<3, 5>>)
    ELSE Rat(1 + ((Len(key[1]) + key[1][1][1]
                   + (IF key[2] = <<"gbert-large">> THEN 0 ELSE 1) + 3 * idx) % 4), 5)

predict(key, frame) ==
    [j \in DOMAIN frame |->
        LET q == P1(key, frame[j]) IN <<Rat(q[2] - q[1], q[2]), q>>]

\* a plausible slip: the running total is overwritten, not added to
accumulate_overwrite(total, pred) == pred

\* lines 367-370
accumulate(total, pred) ==
    IF Len(total) = 0 THEN pred
    ELSE [j \in DOMAIN total |->
            <<RAdd(total[j][1], pred[j][1]), RAdd(total[j][2], pred[j][2])>>]

\* line 372: predictions / (model_count * len(model_names))
y_pred_proba(total) ==
    [j \in DOMAIN total |->
        <<RDivInt(total[j][1], model_count * Len(model_names)),
          RDivInt(total[j][2], model_count * Len(model_names))>>]

\* line 373: np.argmax(..., axis=-1), the first index of the maximum
argmax(proba) == [j \in DOMAIN proba |-> IF RGt(proba[j][2], proba[j][1]) THEN 1 ELSE 0]

-----------------------------------------------------------------------------
(* The driver, lines 252-411                                               *)

EmptyScores ==
    [l \in Range(LABELS) \cup {"macro"} |-> [m \in METRICS |-> <<>>]]

NoLast == [key |-> <<>>, had |-> FALSE, load |-> "none",
           trained |-> FALSE, wrote |-> FALSE]

\* lines 290-293: the locals of the iteration for fold f
BeginFold(f) ==
    /\ df_train' = train_index(NumRows, f)
    /\ df_val' = val_index(NumRows, f)
    /\ predictions' = <<>>
    /\ npred' = 0
    /\ mi' = 1
    /\ k' = 0
    /\ pc' = "tokenizer"

F1Idle ==
    /\ ly_true = <<>>
    /\ ly_pred = <<>>
    /\ macro_f1 = Zero

Init ==
    /\ \E in \in Inputs :
         /\ model_names = in[1]
         /\ df = Dataset(in[2])
         /\ sampler = in[3]
         /\ oracle = in[4]
    /\ store = {}
    /\ pc = "tokenizer"
    /\ label = 1
    /\ i = 0
    /\ mi = 1
    /\ k = 0
    /\ tokenizer = <<>>
    /\ df_train = train_index(NRows, 0)
    /\ df_val = val_index(NRows, 0)
    /\ df_train_val = <<>>
    /\ df_train_train = <<>>
    /\ predictions = <<>>
    /\ npred = 0
    /\ scores = EmptyScores
    /\ last = NoLast
    /\ err = "none"
    /\ F1Idle

inputs == <<model_names, df, sampler, oracle>>
f1vars == <<ly_true, ly_pred, macro_f1>>

\* an uncaught exception ends the run
Abort(e) ==
    /\ pc' = "aborted"
    /\ err' = e

\* AutoTokenizer.from_pretrained(identifier), line 296: no tokenizer is
\* found under the empty identifier
tokenizer_from_pretrained_raises(hf) == hf = EmptyStr

\* lines 295-300, the tokenizer of model_names[mi] is loaded and df_val tokenized
LoadTokenizer ==
    /\ pc = "tokenizer"
    /\ ~tokenizer_from_pretrained_raises(get_hugging_face_name(model_names[mi]))
    /\ tokenizer' = get_hugging_face_name(model_names[mi])
    /\ pc' = "submodel"
    /\ UNCHANGED <<inputs, store, label, i, mi, k, df_train, df_val,
                   df_train_val, df_train_train, predictions, npred, scores,
                   last, err, f1vars>>

\* line 296 raises
TokenizerFails ==
    /\ pc = "tokenizer"
    /\ tokenizer_from_pretrained_raises(get_hugging_face_name(model_names[mi]))
    /\ Abort("tokenizer")
    /\ UNCHANGED <<inputs, store, label, i, mi, k, tokenizer, df_train,
                   df_val, df_train_val, df_train_train, predictions, npred,
                   scores, last, f1vars>>

\* What from_pretrained('../models/' + hash, local_files_only=True), line
\* 338, can do: return the stored model; raise OSError because no such
\* checkpoint exists ("not_found"); raise OSError because the checkpoint
\* exists and cannot be read ("io_error"); raise another exception.
LoadOutcomes(key) ==
    IF key \in store THEN {"ok", "io_error", "runtime_error"} ELSE {"not_found"}

\* except EnvironmentError, line 348: EnvironmentError is OSError
IsEnvironmentError(e) == e \in {"not_found", "io_error"}

\* the loop variables after the body of line 302 has run
NextSubmodel ==
    IF k + 1 < model_count
    THEN /\ k' = k + 1
         /\ pc' = "submodel"
         /\ UNCHANGED mi
    ELSE IF mi < Len(model_names)
    THEN /\ k' = 0
         /\ mi' = mi + 1
         /\ pc' = "tokenizer"
    ELSE /\ pc' = "score"
         /\ UNCHANGED <<mi, k>>

\* lines 303-320
Split ==
    /\ df_train_val' = sample(df_train, k)
    /\ df_train_train' = drop_sampled(df_train, sample(df_train, k))

CurrentKey ==
    hash(drop_sampled(df_train, sample(df_train, k)), model_names[mi], LABELS[label])

\* lines 364-370
PredictAndAccumulate(key) ==
    /\ predictions' = accumulate(predictions, predict(key, df_val))
    /\ npred' = npred + 1

\* lines 303-347 and 364-370: the checkpoint is loaded
LoadCached ==
    /\ pc = "submodel"
    /\ "ok" \in LoadOutcomes(CurrentKey)
    /\ Split
    /\ last' = [key |-> CurrentKey, had |-> CurrentKey \in store, load |-> "ok",
                trained |-> FALSE, wrote |-> FALSE]
    /\ PredictAndAccumulate(CurrentKey)
    /\ NextSubmodel
    /\ UNCHANGED <<inputs, store, label, i, tokenizer, df_train, df_val,
                   scores, err, f1vars>>

\* lines 303-340, 348-362 and 364-370: the load raises an EnvironmentError,
\* a fresh model is trained and saved
TrainFresh ==
    /\ pc = "submodel"
    /\ \E e \in LoadOutcomes(CurrentKey) :
         /\ IsEnvironmentError(e)
         /\ last' = [key |-> CurrentKey, had |-> CurrentKey \in store, load |-> e,
                     trained |-> TRUE, wrote |-> TRUE]
    /\ Split
    /\ store' = store \cup {CurrentKey}
    /\ PredictAndAccumulate(CurrentKey)
    /\ NextSubmodel
    /\ UNCHANGED <<inputs, label, i, tokenizer, df_train, df_val,
                   scores, err, f1vars>>

\* lines 303-340: the load raises what line 348 does not catch
LoadRaises ==
    /\ pc = "submodel"
    /\ \E e \in LoadOutcomes(CurrentKey) :
         /\ e # "ok"
         /\ ~IsEnvironmentError(e)
         /\ last' = [key |-> CurrentKey, had |-> CurrentKey \in store, load |-> e,
                     trained |-> FALSE, wrote |-> FALSE]
    /\ Split
    /\ Abort("load")
    /\ UNCHANGED <<inputs, store, label, i, mi, k, tokenizer, df_train,
                   df_val, predictions, npred, scores, f1vars>>

\* a plausible slip: a failed training is swallowed and the fold given up
TrainFails_skip ==
    /\ pc = "submodel"
    /\ \E e \in LoadOutcomes(CurrentKey) :
         /\ IsEnvironmentError(e)
         /\ last' = [key |-> CurrentKey, had |-> CurrentKey \in store, load |-> e,
                     trained |-> TRUE, wrote |-> FALSE]
    /\ Split
    /\ err' = "train"
    /\ IF i + 1 < n_splits
       THEN /\ i' = i + 1
            /\ BeginFold(i + 1)
            /\ UNCHANGED label
       ELSE IF label < Len(LABELS)
       THEN /\ label' = label + 1
            /\ i' = 0
            /\ BeginFold(0)
       ELSE /\ pc' = "macro"
            /\ i' = 0
            /\ UNCHANGED <<label, mi, k, df_train, df_val, predictions, npred>>
    /\ UNCHANGED <<inputs, store, tokenizer, scores, f1vars>>

\* lines 303-340 and 348-361: the load raises an EnvironmentError and
\* trainer.train() (or building the fresh model) raises
TrainFails ==
    /\ pc = "submodel"
    /\ \E e \in LoadOutcomes(CurrentKey) :
         /\ IsEnvironmentError(e)
         /\ last' = [key |-> CurrentKey, had |-> CurrentKey \in store, load |-> e,
                     trained |-> TRUE, wrote |-> FALSE]
    /\ Split
    /\ Abort("train")
    /\ UNCHANGED <<inputs, store, label, i, mi, k, tokenizer, df_train,
                   df_val, predictions, npred, scores, f1vars>>

\* a plausible slip: the new entry is put in front
np_prepend(sc, l, m, v) == [sc EXCEPT ![l][m] = <<v>> \o @]

\* np.append(scores[l][m], v)
np_append(sc, l, m, v) == [sc EXCEPT ![l][m] = Append(@, v)]

y_val == Column(df_val, LABELS[label])

\* lines 372-378: the fold's Precision, Recall and F1 are appended
AppendPRF(sc) ==
    LET y_pred == argmax(y_pred_proba(predictions))
        l == LABELS[label]
        s1 == np_append(sc, l, "test_Precision", precision_score(y_val, y_pred))
        s2 == np_append(s1, l, "test_Recall", recall_score(y_val, y_pred))
    IN  np_append(s2, l, "test_F1", calc_f1_score_germeval(y_val, y_pred))

\* y_pred_proba[:, 1]
PositiveColumn(proba) == [j \in DOMAIN proba |-> proba[j][2]]

\* the loop variables after the body of line 289 has run
NextFold ==
    IF i + 1 < n_splits
    THEN /\ i' = i + 1
         /\ BeginFold(i + 1)
         /\ UNCHANGED label
    ELSE IF label < Len(LABELS)
    THEN /\ label' = label + 1
         /\ i' = 0
         /\ BeginFold(0)
    ELSE /\ pc' = "macro"
         /\ i' = 0
         /\ UNCHANGED <<label, mi, k, df_train, df_val, predictions, npred>>

\* a plausible slip: the ValueError of roc_auc_score is not caught
ScoreFold_raise ==
    /\ pc = "score"
    /\ IF roc_auc_raises(y_val)
       THEN /\ scores' = AppendPRF(scores)
            /\ Abort("ValueError")
            /\ UNCHANGED <<label, i, mi, k, df_train, df_val, predictions, npred>>
       ELSE /\ scores' = np_append(AppendPRF(scores), LABELS[label], "test_AUC",
                           roc_auc_score(y_val, PositiveColumn(y_pred_proba(predictions))))
            /\ NextFold
            /\ UNCHANGED err
    /\ UNCHANGED <<inputs, store, tokenizer, df_train_val, df_train_train,
                   last, f1vars>>

\* lines 372-383
ScoreFold ==
    /\ pc = "score"
    /\ scores' = np_append(AppendPRF(scores), LABELS[label], "test_AUC",
                    IF roc_auc_raises(y_val) THEN Zero
                    ELSE roc_auc_score(y_val, PositiveColumn(y_pred_proba(predictions))))
    /\ NextFold
    /\ UNCHANGED <<inputs, store, tokenizer, df_train_val, df_train_train,
                   last, err, f1vars>>

\* a plausible slip: the mean leaves out the last label
macro_entry_two(sc, m, f) ==
    np_mean(<<sc["toxic"][m][f + 1], sc["engaging"][m][f + 1]>>)

\* lines 387-398: np.mean([scores['toxic'][m][i], scores['engaging'][m][i],
\* scores['fact'][m][i]]); numpy index f is position f + 1
macro_entry(sc, m, f) ==
    np_mean(<<sc["toxic"][m][f + 1], sc["engaging"][m][f + 1], sc["fact"][m][f + 1]>>)

\* one iteration of the loop of line 386
MacroStep ==
    /\ pc = "macro"
    /\ \A l \in Range(LABELS), m \in METRICS : i + 1 <= Len(scores[l][m])
    /\ scores' = [scores EXCEPT !["macro"] =
                    [m \in METRICS |-> Append(@[m], macro_entry(scores, m, i))]]
    /\ IF i + 1 < MacroFolds
       THEN /\ i' = i + 1
            /\ UNCHANGED pc
       ELSE /\ pc' = "report"
            /\ UNCHANGED i
    /\ UNCHANGED <<inputs, store, label, mi, k, tokenizer, df_train, df_val,
                   df_train_val, df_train_train, predictions, npred, last, err,
                   f1vars>>

\* lines 400-411: the plots and reports are written
Report ==
    /\ pc = "report"
    /\ pc' = "done"
    /\ UNCHANGED <<inputs, store, label, i, mi, k, tokenizer, df_train,
                   df_val, df_train_val, df_train_train, predictions, npred,
                   scores, last, err, f1vars>>

\* the program is run again on the same inputs and the same ../models
Rerun ==
    /\ pc \in {"done", "aborted"}
    /\ label' = 1
    /\ i' = 0
    /\ BeginFold(0)
    /\ tokenizer' = <<>>
    /\ df_train_val' = <<>>
    /\ df_train_train' = <<>>
    /\ scores' = EmptyScores
    /\ last' = NoLast
    /\ err' = "none"
    /\ UNCHANGED <<inputs, store, f1vars>>

Next ==
    \/ LoadTokenizer
    \/ TokenizerFails
    \/ LoadCached
    \/ TrainFresh
    \/ LoadRaises
    \/ TrainFails
    \/ ScoreFold
    \/ MacroStep
    \/ Report
    \/ Rerun

Spec == Init /\ [][Next]_vars

-----------------------------------------------------------------------------
(* calc_f1_score_germeval as a function of its arguments: every pair of    *)
(* label vectors of one length up to MaxLen                                *)

BinarySeqs(n) == [1..n -> {0, 1}]

InitF1 ==
    /\ \E n \in 1..MaxLen :
         /\ ly_true \in BinarySeqs(n)
         /\ ly_pred \in BinarySeqs(n)
    /\ macro_f1 = Zero
    /\ pc = "f1_call"
    /\ model_names = <<>>
    /\ df = <<>>
    /\ sampler = "none"
    /\ oracle = "none"
    /\ store = {}
    /\ label = 1
    /\ i = 0
    /\ mi = 1
    /\ k = 0
    /\ tokenizer = <<>>
    /\ df_train = <<>>
    /\ df_val = <<>>
    /\ df_train_val = <<>>
    /\ df_train_train = <<>>
    /\ predictions = <<>>
    /\ npred = 0
    /\ scores = EmptyScores
    /\ last = NoLast
    /\ err = "none"

\* the call calc_f1_score_germeval(ly_true, ly_pred), lines 236-249
CalcF1 ==
    /\ pc = "f1_call"
    /\ macro_f1' = calc_f1_score_germeval(ly_true, ly_pred)
    /\ pc' = "f1_done"
    /\ UNCHANGED <<inputs, store, label, i, mi, k, tokenizer, df_train,
                   df_val, df_train_val, df_train_train, predictions, npred,
                   scores, last, err, ly_true, ly_pred>>

NextF1 == CalcF1

SpecF1 == InitF1 /\ [][NextF1]_vars

-----------------------------------------------------------------------------
(* The bootstrap split of lines 303-304 on its own: training frames whose  *)
(* texts may repeat, and every sample DataFrame.sample can draw            *)

\* the texts of a frame of n rows: any texts out of two; or all different
\* but for one row that repeats an earlier one; or all different
TextsOf(n) ==
    [0..(n - 1) -> {1, 2}]
    \cup {[j \in 0..(n - 1) |-> IF j = b THEN a ELSE j] : a, b \in 0..(n - 1)}

\* frames small enough for every sample to be drawn: sizes with a sample of
\* one row, and 15 and 16 rows with a sample of two
SplitSizes == (5..MaxFrame) \cup {15, 16}

FrameOf(texts) == [j \in DOMAIN texts |-> Row(texts[j], 0, 0, 0)]

IndexOf(n) == [j \in 1..n |-> j - 1]

\* the subsets of the rows of a frame of n rows, of the size sample draws,
\* as frames in index order
SamplesOf(n) ==
    {Filter(IndexOf(n), S) : S \in {T \in SUBSET (0..(n - 1)) : Cardinality(T) = SampleSize(n)}}

\* the samples of ten consecutive rows (cyclically) of a frame of n rows
WindowsOf(n) ==
    {[j \in 1..SampleSize(n) |-> (start + j - 1) % n] : start \in 0..(n - 1)}

InitSplit ==
    /\ \/ \E n \in SplitSizes :
            /\ n <= MaxFrame
            /\ df \in {FrameOf(t) : t \in TextsOf(n)}
       \/ \E n \in SplitSizes :
            /\ n > MaxFrame
            /\ df \in {FrameOf([j \in 0..(n - 1) |-> IF j = b THEN a ELSE j]) :
                         a \in {0, 3}, b \in 0..(n - 1)}
       \/ df = FrameOf([j \in 0..99 |-> j])
    /\ df_train = IndexOf(NumRows)
    /\ pc = "split_call"
    /\ model_names = <<>>
    /\ sampler = "any"
    /\ oracle = "none"
    /\ store = {}
    /\ label = 1
    /\ i = 0
    /\ mi = 1
    /\ k = 0
    /\ tokenizer = <<>>
    /\ df_val = <<>>
    /\ df_train_val = <<>>
    /\ df_train_train = <<>>
    /\ predictions = <<>>
    /\ npred = 0
    /\ scores = EmptyScores
    /\ last = NoLast
    /\ err = "none"
    /\ F1Idle

\* lines 303-304 for one repetition
SplitStep ==
    /\ pc = "split_call"
    /\ \E val \in (IF NumRows <= 16 THEN SamplesOf(NumRows) ELSE WindowsOf(NumRows)) :
         /\ df_train_val' = val
         /\ df_train_train' = drop_sampled(df_train, val)
    /\ pc' = "split_done"
    /\ UNCHANGED <<inputs, store, label, i, mi, k, tokenizer, df_train,
                   df_val, predictions, npred, scores, last, err, f1vars>>

NextSplit == SplitStep

SpecSplit == InitSplit /\ [][NextSplit]_vars

-----------------------------------------------------------------------------
(* What the driver's state is compared with: each fold's quantities         *)
(* computed from the inputs alone                                           *)

AfterScoring == pc \in {"macro", "report", "done"}

LabelIndex(l) == CHOOSE j \in DOMAIN LABELS : LABELS[j] = l

\* number of folds of label l whose scores have been appended
FoldsCompleted(l) ==
    IF AfterScoring \/ LabelIndex(l) < label THEN n_splits
    ELSE IF LabelIndex(l) = label THEN i
    ELSE 0

YValOf(l, f) == Column(val_index(NumRows, f), l)

\* a matrix as an explicit sequence of its rows
RECURSIVE RowsUpTo(_, _)
RowsUpTo(m, n) == IF n = 0 THEN <<>> ELSE Append(RowsUpTo(m, n - 1), m[n])
Rows(m) == RowsUpTo(m, Len(m))

\* the probability matrix of base model mm, repetition kk on fold f
SubModelPred(l, f, mm, kk) ==
    LET train == train_index(NumRows, f)
    IN  Rows(predict(hash(drop_sampled(train, sample(train, kk)), mm, l),
                     val_index(NumRows, f)))

SubModelCount == model_count * Len(model_names)

Perms(S) == {p \in [1..Cardinality(S) -> S] : \A a, b \in DOMAIN p : p[a] = p[b] => a = b}

\* the iteration orders of base models and repetitions: each loop in any
\* order, either loop the outer one
Orders ==
    LET M == Len(model_names)
    IN  {[t \in 1..SubModelCount |->
            IF outer = "models"
            THEN <<pm[((t - 1) \div model_count) + 1], pk[((t - 1) % model_count) + 1]>>
            ELSE <<pm[((t - 1) % M) + 1], pk[((t - 1) \div M) + 1]>>] :
         pm \in Perms(1..M), pk \in Perms(0..(model_count - 1)),
         outer \in {"models", "repetitions"}}

\* position of (base model mm, repetition kk) in the order of the code
CodeIndex(mk) == (mk[1] - 1) * model_count + mk[2] + 1

CodeOrder ==
    [t \in 1..SubModelCount |->
        <<((t - 1) \div model_count) + 1, (t - 1) % model_count>>]

\* the matrices of the sub-models of fold f, in the order of the code
FoldPreds(l, f) ==
    Rows([t \in 1..SubModelCount |->
            SubModelPred(l, f, model_names[CodeOrder[t][1]], CodeOrder[t][2])])

\* the running total of lines 367-370 after the sub-models of order, in
\* order, preds holding their matrices
RECURSIVE TotalIn(_, _)
TotalIn(order, preds) ==
    IF order = <<>> THEN <<>>
    ELSE LET n == Len(order)
         IN  Rows(accumulate(TotalIn(SubSeq(order, 1, n - 1), preds), preds[CodeIndex(order[n])]))

\* the sum of cell (row j, class c) over all sub-models
CellSum(preds, j, c) == RSum([t \in 1..SubModelCount |-> preds[t][j][c]])

ExpectedProba(l, f) == Rows(y_pred_proba(TotalIn(CodeOrder, FoldPreds(l, f))))

ExpectedEntry(l, m, f) ==
    LET proba == ExpectedProba(l, f)
        yv == YValOf(l, f)
    IN  IF m = "test_Precision" THEN precision_score(yv, argmax(proba))
        ELSE IF m = "test_Recall" THEN recall_score(yv, argmax(proba))
        ELSE IF m = "test_F1" THEN calc_f1_score_germeval(yv, argmax(proba))
        ELSE IF roc_auc_raises(yv) THEN Zero
        ELSE roc_auc_score(yv, PositiveColumn(proba))

-----------------------------------------------------------------------------
(* The claims                                                              *)

\* C1: a checkpoint is written at most once per cache key: an iteration
\* whose key is already in the store loads it, trains nothing and writes
\* nothing.
C1_WrittenOncePerKey ==
    last.had => (~last.trained /\ ~last.wrote)

\* C2: a load failure that is not "checkpoint not found" starts no
\* training, writes no checkpoint and aborts the run.
C2_OnlyNotFoundTrains ==
    last.load = "io_error" => (~last.trained /\ ~last.wrote /\ pc = "aborted")

C4_AverageOfSubModels ==
    pc = "score" =>
        LET preds == FoldPreds(LABELS[label], i)
        IN  /\ npred = SubModelCount
            /\ Len(preds) = SubModelCount
            /\ \A order \in Orders : TotalIn(order, preds) = predictions
            /\ \A j \in DOMAIN df_val, c \in {1, 2} :
                  /\ predictions[j][c] = CellSum(preds, j, c)
                  /\ RMul(y_pred_proba(predictions)[j][c], <<SubModelCount, 1>>)
                        = CellSum(preds, j, c)

\* two base models predicting [0.9, 0.1] and [0.7, 0.3] average to [0.8, 0.2]
C4_Witness ==
    /\ pc = "score"
    /\ oracle = "by_model"
    /\ model_names = <<"gbert", "gelectra">>
    /\ label = 2
    /\ \A j \in DOMAIN df_val : y_pred_proba(predictions)[j] = <<<<4, 5>>, <<1, 5>>>>

C6_UndefinedAucIsZero ==
    /\ err # "ValueError"
    /\ \A l \in Range(LABELS) :
          /\ Len(scores[l]["test_AUC"]) = Len(scores[l]["test_Precision"])
          /\ Len(scores[l]["test_AUC"]) = Len(scores[l]["test_Recall"])
          /\ Len(scores[l]["test_AUC"]) = Len(scores[l]["test_F1"])
          /\ \A f \in 0..(FoldsCompleted(l) - 1) :
                roc_auc_raises(YValOf(l, f)) =>
                   /\ f + 1 <= Len(scores[l]["test_AUC"])
                   /\ scores[l]["test_AUC"][f + 1] = Zero

\* a single-class fold was scored with AUC 0 and an F1 that is not 0, and
\* the next fold after it was scored too
C6_Witness ==
    \E l \in Range(LABELS) : \E f \in 0..(n_splits - 2) :
        /\ roc_auc_raises(YValOf(l, f))
        /\ Len(scores[l]["test_AUC"]) >= f + 2
        /\ scores[l]["test_AUC"][f + 1] = Zero
        /\ scores[l]["test_F1"][f + 1] # Zero
        /\ ~roc_auc_raises(YValOf(l, f + 1))
        /\ scores[l]["test_AUC"][f + 2] # Zero

KnownNames == {"gbert", "gelectra", "gottbert"}

\* C7: a short name other than gbert, gelectra, gottbert maps to the empty
\* identifier, and no tokenizer, cache key or checkpoint is ever made with
\* the empty identity: the run aborts at the tokenizer of that name.
C7_UnknownNameFails ==
    /\ \A name \in (Range(model_names) \cup {"xlmr", "", "GBERT", "bert"}) \ KnownNames :
          get_hugging_face_name(name) = EmptyStr
    /\ tokenizer # EmptyStr
    /\ last.key # <<>> => last.key[2] # EmptyStr
    /\ \A key \in store : key[2] # EmptyStr
    /\ model_names[mi] \notin KnownNames =>
          /\ pc \in {"tokenizer", "aborted"}
          /\ pc = "tokenizer" => ~ENABLED LoadTokenizer
          /\ pc = "aborted" => err = "tokenizer"

C7_Witness ==
    /\ pc = "aborted"
    /\ err = "tokenizer"
    /\ model_names[mi] = "xlmr"
    /\ store # {}
    /\ tokenizer = <<"deepset", "gbert-large">>

ExampleScores ==
    [EmptyScores EXCEPT !["toxic"]["test_F1"] = <<<<3, 5>>>>,
                        !["engaging"]["test_F1"] = <<<<7, 10>>>>,
                        !["fact"]["test_F1"] = <<<<4, 5>>>>]

\* C8: every macro entry, times three, is the sum of the toxic, engaging
\* and fact entries of the same metric at the same fold index; F1 scores
\* of 0.6, 0.7 and 0.8 give 0.7.
C8_MacroIsMean ==
    /\ macro_entry(ExampleScores, "test_F1", 0) = <<7, 10>>
    /\ \A m \in METRICS : \A f \in DOMAIN scores["macro"][m] :
          RMul(<<3, 1>>, scores["macro"][m][f]) =
             RAdd(RAdd(scores["toxic"][m][f], scores["engaging"][m][f]),
                  scores["fact"][m][f])

\* a macro AUC entry that averages a substituted 0 with two defined AUCs
C8_Witness ==
    /\ pc = "done"
    /\ \E f \in 0..(n_splits - 1) :
          /\ roc_auc_raises(YValOf("engaging", f))
          /\ scores["engaging"]["test_AUC"][f + 1] = Zero
          /\ scores["toxic"]["test_AUC"][f + 1] # Zero
          /\ scores["macro"]["test_AUC"][f + 1] # Zero

\* the confusion counts of ly_pred against ly_true
TP == Conf(ly_true, ly_pred, 1, 1)
FP == Conf(ly_true, ly_pred, 0, 1)
FN == Conf(ly_true, ly_pred, 1, 0)
TN == Conf(ly_true, ly_pred, 0, 0)

\* the classes that occur, and the unweighted averages over them of the
\* per-class precision and recall, an empty denominator giving 0
OccurringClasses == (IF TP + FP + FN > 0 THEN {1} ELSE {}) \cup (IF TN + FP + FN > 0 THEN {0} ELSE {})

AvgPrecision ==
    RDivInt(RAdd(IF 1 \in OccurringClasses THEN Ratio(TP, TP + FP) ELSE Zero,
                 IF 0 \in OccurringClasses THEN Ratio(TN, TN + FN) ELSE Zero),
            Cardinality(OccurringClasses))

AvgRecall ==
    RDivInt(RAdd(IF 1 \in OccurringClasses THEN Ratio(TP, TP + FN) ELSE Zero,
                 IF 0 \in OccurringClasses THEN Ratio(TN, TN + FP) ELSE Zero),
            Cardinality(OccurringClasses))

\* C9: calc_f1_score_germeval returns 2*P*R/(P+R) for the unweighted
\* per-class averages P and R of precision and recall, exactly 0 when
\* P+R = 0, and 1 when y_pred = y_true with both classes present.
C9_HarmonicMeanOfMacroAverages ==
    pc = "f1_done" =>
        /\ macro_f1 = (IF AvgPrecision = Zero /\ AvgRecall = Zero THEN Zero
                       ELSE LET sum == RAdd(AvgPrecision, AvgRecall)
                                twice == RMul(<<2, 1>>, RMul(AvgPrecision, AvgRecall))
                            IN  Rat(twice[1] * sum[2], twice[2] * sum[1]))
        /\ (ly_pred = ly_true /\ Range(ly_true) = {0, 1}) => macro_f1 = One

\* a call with P + R = 0 that returned 0
C9_Witness ==
    /\ pc = "f1_done"
    /\ Len(ly_true) = MaxLen
    /\ AvgPrecision = Zero
    /\ AvgRecall = Zero
    /\ macro_f1 = Zero

AllTexts(frame) == {df[frame[j]].text : j \in DOMAIN frame}

UniqueTexts(frame) ==
    \A a, b \in DOMAIN frame : df[frame[a]].text = df[frame[b]].text => a = b

\* C10: val-of-train holds round(n/10) different rows of the training
\* frame; train-of-train holds, in the frame's order, exactly the rows of
\* the frame whose text does not occur in val-of-train, so the two share no
\* text and a row sharing its text with a sampled row is left out too; with
\* all texts different the two partition the frame, 100 rows giving 10 and
\* 90.
C10_SplitByText ==
    pc = "split_done" =>
        /\ Len(df_train_val) = SampleSize(Len(df_train))
        /\ 2 * FracDen * Len(df_train_val) <= 2 * Len(df_train) + FracDen
        /\ 2 * FracDen * Len(df_train_val) >= 2 * Len(df_train) - FracDen
        /\ Range(df_train_val) \subseteq Range(df_train)
        /\ Cardinality(Range(df_train_val)) = Len(df_train_val)
        /\ \A x \in Range(df_train) :
              x \in Range(df_train_train) <=> df[x].text \notin AllTexts(df_train_val)
        /\ Cardinality(Range(df_train_train)) = Len(df_train_train)
        /\ \A a, b \in DOMAIN df_train_train : a < b => df_train_train[a] < df_train_train[b]
        /\ AllTexts(df_train_train) \cap AllTexts(df_train_val) = {}
        /\ UniqueTexts(df_train) =>
              /\ Range(df_train_train) \cup Range(df_train_val) = Range(df_train)
              /\ Range(df_train_train) \cap Range(df_train_val) = {}
              /\ Len(df_train_train) + Len(df_train_val) = Len(df_train)
        /\ (UniqueTexts(df_train) /\ Len(df_train) = 100) =>
              (Len(df_train_val) = 10 /\ Len(df_train_train) = 90)

\* a row that was not sampled is left out of train-of-train because it
\* shares its text with a sampled row
C10_Witness ==
    /\ pc = "split_done"
    /\ Len(df_train_val) = 2
    /\ Len(df_train_train) = Len(df_train) - 3
    /\ \E x \in Range(df_train) \ Range(df_train_val) :
          x \notin Range(df_train_train)

====
